---- MODULE Spec2Model ----
(***************************************************************************)
(* route53ddns (src/main.go): a process that reads its configuration in    *)
(* init(), registers getIPAndUpdate with a gocron scheduler in main(), and *)
(* on every firing resolves the public IP and reconciles one Route53       *)
(* record.                                                                 *)
(*                                                                         *)
(* Strings that the code takes apart (the hostname, zone identifiers) are  *)
(* sequences of one-character strings; strings it only compares or passes  *)
(* on (addresses, error messages) are TLA+ strings.                        *)
(***************************************************************************)
EXTENDS Integers, Sequences, FiniteSets, TLC

VARIABLES env, proc, fqdn, ipURL, scheduler, fired, records, job

vars == <<env, proc, fqdn, ipURL, scheduler, fired, records, job>>

\* ---------------------------------------------------------------- bounds

\* Longest hostname whose split is followed.
MaxHostLen == 4
\* Number of firings of the periodic trigger that are followed.
MaxCycles == 2
\* Number of invocations of the job that may be in progress at once.
MaxRunning == 2

\* ------------------------------------------------------------- constants

RecordType == "A"
TTL == 300
UpdateInterval == 300

NL == "\n"
Dot == "."

\* --------------------------------------------------------------- strings

\* The characters hostnames are drawn from: a letter, the separator, and a
\* line break (which `.` of the regular expression does not match).
HostChars == {"a", Dot, NL}

RECURSIVE SeqsUpTo(_, _)
SeqsUpTo(S, n) ==
    IF n = 0 THEN {<<>>}
    ELSE LET shorter == SeqsUpTo(S, n - 1)
         IN  shorter \cup {Append(s, ch) : s \in {t \in shorter : Len(t) = n - 1}, ch \in S}

\* Every hostname of up to MaxHostLen characters.
Hostnames == SeqsUpTo(HostChars, MaxHostLen)

\* Values of CONFIG_R53DDNS_HOSTNAME the whole process is followed with:
\* unset/empty, one without separator, one with a label and a parent domain.
ConfiguredHostnames == {<<>>, <<"a">>, <<"a", Dot, "a">>}

\* Values of CONFIG_R53DDNS_IPURL: unset/empty, or some URL.
IPURLs == {<<>>, <<"u">>}

Range(s) == {s[i] : i \in 1..Len(s)}

\* Position of the first occurrence of ch in s, or 0.
IndexOf(s, ch) ==
    IF ch \in Range(s) THEN CHOOSE i \in 1..Len(s) : s[i] = ch /\ \A j \in 1..(i - 1) : s[j] /= ch
    ELSE 0

\* Every trailing ch cut off, as strings.TrimRight does.
RECURSIVE TrimSuffix_All(_, _)
TrimSuffix_All(s, ch) ==
    IF Len(s) > 0 /\ s[Len(s)] = ch THEN TrimSuffix_All(SubSeq(s, 1, Len(s) - 1), ch) ELSE s

\* strings.TrimSuffix(s, suffix) for a one-character suffix.
TrimSuffix(s, ch) ==
    IF Len(s) > 0 /\ s[Len(s)] = ch THEN SubSeq(s, 1, Len(s) - 1) ELSE s

\* strings.Split(s, sep) for a one-character separator: the pieces between
\* the separators, empty pieces included.
RECURSIVE Split(_, _)
Split(s, sep) ==
    LET i == IndexOf(s, sep)
    IN  IF i = 0 THEN <<s>>
        ELSE <<SubSeq(s, 1, i - 1)>> \o Split(SubSeq(s, i + 1, Len(s)), sep)

\* domainRegex.FindStringSubmatch(s) for ^([^\x2E]*)\x2E(.*)$ : the first
\* group takes everything before the first period (any character but a
\* period, line breaks included), the second the rest, which must reach the
\* end of the text without a line break (`.` does not match "\n" and `$`
\* matches only at the end of the text). The empty sequence (Go's nil slice,
\* of length 0) on no match; otherwise <<whole match, group 1, group 2>>,
\* Go's tokens[0], tokens[1], tokens[2].
FindStringSubmatch(s) ==
    LET i == IndexOf(s, Dot)
    IN  IF i = 0 THEN <<>>
        ELSE LET rest == SubSeq(s, i + 1, Len(s))
             IN  IF NL \in Range(rest) THEN <<>>
                 ELSE <<s, SubSeq(s, 1, i - 1), rest>>

\* ------------------------------------------------------- the IP-echo service

\* Response bodies of the IP-echo service: a chunk of text followed by line
\* breaks.
Bodies ==
    { <<"203.0.113.9">>, <<"203.0.113.1", NL>>, <<"::ffff:203.0.113.9", NL>>,
      <<"not an ip">>, <<"203.0.113.9", NL, NL>> }

\* net.ParseIP(text).String() on the texts above: the canonical text of the
\* address, or "" where ParseIP returns nil. An IPv4-mapped IPv6 address
\* prints in dotted-decimal form.
ParseIP(formatted) ==
    IF Len(formatted) /= 1 THEN ""
    ELSE CASE formatted[1] = "203.0.113.9" -> "203.0.113.9"
           [] formatted[1] = "203.0.113.1" -> "203.0.113.1"
           [] formatted[1] = "::ffff:203.0.113.9" -> "203.0.113.9"
           [] OTHER -> ""

\* What http.Get and io.ReadAll give back: a transport error or a body.
HTTPResponses == {[err |-> TRUE, body |-> <<>>]} \cup {[err |-> FALSE, body |-> b] : b \in Bodies}

\* getIP returning the trimmed text as it came, not ip.String().
getIP_Verbatim(httpResp) ==
    IF httpResp.err THEN [ip |-> "", err |-> "transport error"]
    ELSE LET formatted == TrimSuffix(httpResp.body, NL)
         IN  IF ParseIP(formatted) = "" THEN [ip |-> "", err |-> "not a valid IP address"]
             ELSE [ip |-> formatted[1], err |-> ""]

\* getIP: the address and the error.
getIP(httpResp) ==
    IF httpResp.err THEN [ip |-> "", err |-> "transport error"]
    ELSE LET formatted == TrimSuffix(httpResp.body, NL)
             ip == ParseIP(formatted)
         IN  IF ip = "" THEN [ip |-> "", err |-> "not a valid IP address"]
             ELSE [ip |-> ip, err |-> ""]

\* ------------------------------------------------------------ the provider

\* Composite identifiers of the provider's two hosted zones.
ZoneIdA == <<"/", "h", "/", "A">>
ZoneIdB == <<"/", "h", "/", "B">>

\* A zone name that is no parent domain of a modelled hostname.
OtherZoneName == <<"z", Dot>>
\* A record name that is no modelled hostname.
OtherRecordName == <<"z", Dot, "z", Dot>>

\* The zone named as asked for, and the nearest other zone.
ExactZone(dnsName) == [Name |-> dnsName, Id |-> ZoneIdA]
NearestZone == [Name |-> OtherZoneName, Id |-> ZoneIdB]

\* Answers of ListHostedZonesByName to a query for dnsName: an error, or the
\* query echoed in DNSName (or not) with a list of hosted zones.
ZoneResponses(dnsName) ==
    {[err |-> TRUE, DNSName |-> <<>>, HostedZones |-> <<>>]} \cup
    {[err |-> FALSE, DNSName |-> dnsName, HostedZones |-> hz] :
        hz \in {<<>>, <<ExactZone(dnsName)>>, <<NearestZone>>,
                <<ExactZone(dnsName), NearestZone>>}} \cup
    {[err |-> FALSE, DNSName |-> OtherZoneName, HostedZones |-> <<NearestZone>>]}

\* The zone identifiers record sets are stored under.
ZoneIDs == {<<"A">>, <<"B">>}

\* A record set as the provider stores it.
RRSet(zone, name, values) ==
    [Zone |-> zone, Name |-> name, Type |-> RecordType, TTL |-> TTL,
     ResourceRecords |-> [i \in 1..Len(values) |-> [Value |-> values[i]]]]

\* Provider states the process may start against: the target record absent
\* or present with one or two values, an unrelated record, and the same
\* name in the other zone.
InitialRecords(host) ==
    LET target == host \o <<Dot>>
        inA == {{}, {RRSet(<<"A">>, target, <<"203.0.113.9">>)},
                {RRSet(<<"A">>, target, <<"203.0.113.1", "203.0.113.9">>)}}
        otherA == {{}, {RRSet(<<"A">>, OtherRecordName, <<"203.0.113.9">>)}}
        inB == {{}, {RRSet(<<"B">>, target, <<"203.0.113.1">>)}}
    IN  {a \cup o \cup b : a \in inA, o \in otherA, b \in inB}

\* Answers of ListResourceRecordSets(StartRecordName, HostedZoneId,
\* MaxItems 1): an error, or at most one record set of the zone: the one
\* named as asked for when the zone holds it, else another or none.
ListResponses(recs, zoneID, startName) ==
    LET inZone == {r \in recs : r.Zone = zoneID}
        exact == {r \in inZone : r.Name = startName \o <<Dot>>}
    IN  {[err |-> TRUE, ResourceRecordSets |-> <<>>]} \cup
        IF exact /= {} THEN {[err |-> FALSE, ResourceRecordSets |-> <<r>>] : r \in exact}
        ELSE {[err |-> FALSE, ResourceRecordSets |-> <<>>]} \cup
             {[err |-> FALSE, ResourceRecordSets |-> <<r>>] : r \in inZone}

\* The provider's state after it applied a change batch of one change: an
\* UPSERT replaces the record set of that zone, name and type, a DELETE
\* removes it.
ApplyChange(recs, params) ==
    LET change == params.ChangeBatch.Changes[1]
        new == change.ResourceRecordSet
        zone == params.HostedZoneId
        others == {r \in recs : ~(r.Zone = zone /\ r.Name = new.Name /\ r.Type = new.Type)}
    IN  IF change.Action = "DELETE" THEN others
        ELSE others \cup
             {[Zone |-> zone, Name |-> new.Name, Type |-> new.Type, TTL |-> new.TTL,
               ResourceRecords |-> new.ResourceRecords]}

\* ------------------------------------------------------- the reconciliation

Jobs == 1..MaxRunning

\* The locals of one invocation of getIPAndUpdate, and where it stands:
\* "idle" (not running), "http" (in http.Get), "zones" (in
\* ListHostedZonesByName), "list" (in ListResourceRecordSets), "change" (in
\* ChangeResourceRecordSets), "done" (returned), "panic" (index out of
\* range). calls is the outbound calls it has issued, in order; optional
\* values are sequences of length 0 or 1. body is what getIP read, a local
\* of getIP that is followed up to the invocation's next answer.
IdleJob ==
    [pc |-> "idle", body |-> <<>>, ip |-> "", fqdn |-> <<>>, tokens |-> <<>>,
     resources |-> <<>>,
     zoneID |-> <<>>, resp |-> <<>>, params |-> <<>>, calls |-> <<>>,
     err |-> <<>>, logged |-> ""]

Call(api, arg) == [api |-> api, arg |-> arg]

\* getIPAndUpdate returning err, wrapped with the phase that failed.
Failed(l, phase, cause) == [l EXCEPT !.pc = "done", !.err = <<phase, cause>>]

\* init() without its checks: nothing counts as missing.
ConfigMissing_Unchecked(value) == FALSE

\* init(): a required variable is missing when it is empty or unset.
ConfigMissing(value) == value = <<>>

\* The validation testing only for an empty answer: len(...) == 0.
ZoneCountInvalid_OnlyEmpty(resources) == Len(resources.HostedZones) = 0

\* len(resources.HostedZones) != 1
ZoneCountInvalid(resources) == Len(resources.HostedZones) /= 1

\* *resources.DNSName != domain+"."
ZoneMismatch(resources, domain) == resources.DNSName /= domain \o <<Dot>>

\* The composite identifier used as it came, without the split.
ExtractZoneID_Whole(id) == id

\* zoneIDTokens[len(zoneIDTokens)-1] of strings.Split(Id, "/")
ExtractZoneID(id) ==
    LET zoneIDTokens == Split(id, "/")
    IN  zoneIDTokens[Len(zoneIDTokens)]

\* foundResource: exactly one record set came back and its name is fqdn+".".
foundResource(resp, host) ==
    /\ Len(resp.ResourceRecordSets) = 1
    /\ resp.ResourceRecordSets[1].Name = host \o <<Dot>>

\* The comparison looking at the first value only, without the loop.
AlreadyRegistered_FirstOnly(resp, host, ip) ==
    /\ foundResource(resp, host)
    /\ Len(resp.ResourceRecordSets[1].ResourceRecords) > 0
    /\ resp.ResourceRecordSets[1].ResourceRecords[1].Value = ip

\* The loop over ResourceRecords: some value equals ip.
AlreadyRegistered(resp, host, ip) ==
    /\ foundResource(resp, host)
    /\ \E i \in 1..Len(resp.ResourceRecordSets[1].ResourceRecords) :
          resp.ResourceRecordSets[1].ResourceRecords[i].Value = ip

\* The record named as StartRecordName is, without the trailing period.
NewResourceRecordSet_NoDot(host, ip) ==
    [Name |-> host, Type |-> "A", ResourceRecords |-> <<[Value |-> ip]>>, TTL |-> TTL]

\* The A record the change batch carries.
NewResourceRecordSet(host, ip) ==
    [Name |-> host \o <<Dot>>, Type |-> "A", ResourceRecords |-> <<[Value |-> ip]>>,
     TTL |-> TTL]

\* The change batch with the action DELETE in place of UPSERT.
ChangeParams_Delete(host, ip, zoneID) ==
    [ChangeBatch |-> [Changes |-> <<[Action |-> "DELETE",
                                     ResourceRecordSet |-> NewResourceRecordSet(host, ip)]>>],
     HostedZoneId |-> zoneID]

\* route53.ChangeResourceRecordSetsInput
ChangeParams(host, ip, zoneID) ==
    [ChangeBatch |-> [Changes |-> <<[Action |-> "UPSERT",
                                     ResourceRecordSet |-> NewResourceRecordSet(host, ip)]>>],
     HostedZoneId |-> zoneID]

\* getIPAndUpdate from the answer of http.Get up to the next outbound call:
\* getIP, then upsertRoute53Record's split of the hostname and its call of
\* ListHostedZonesByName. tokens[2] of a nil slice panics.
AfterHTTP(l, httpResp, host) ==
    LET r == getIP(httpResp)
        tokens == FindStringSubmatch(host)
        read == [l EXCEPT !.body = IF httpResp.err THEN <<>> ELSE <<httpResp.body>>]
    IN  IF r.err /= "" THEN Failed(read, "unable to determine ip address", r.err)
        ELSE IF Len(tokens) < 3
             THEN [read EXCEPT !.pc = "panic", !.ip = r.ip, !.fqdn = host, !.tokens = tokens]
             ELSE [read EXCEPT !.pc = "zones", !.ip = r.ip, !.fqdn = host, !.tokens = tokens,
                            !.calls = Append(@, Call("ListHostedZonesByName",
                                                     tokens[3] \o <<Dot>>))]

\* upsertRoute53Record from the answer of ListHostedZonesByName up to its
\* call of ListResourceRecordSets.
AfterZones(l, resources) ==
    LET domain == l.tokens[3]
        got == [l EXCEPT !.resources = <<resources>>, !.body = <<>>]
    IN  IF resources.err THEN Failed(got, "could not update record", "zone lookup error")
        ELSE IF ZoneCountInvalid(resources)
             THEN Failed(got, "could not update record", "could not find domain")
        ELSE IF ZoneMismatch(resources, domain)
             THEN Failed(got, "could not update record", "zone mismatch")
        ELSE LET zoneID == ExtractZoneID(resources.HostedZones[1].Id)
             IN  [got EXCEPT !.pc = "list", !.zoneID = zoneID,
                             !.calls = Append(@, Call("ListResourceRecordSets", zoneID))]

\* The rejected change batch submitted once more instead of returning.
OnChangeError_Retry(l) ==
    [l EXCEPT !.calls = Append(@, Call("ChangeResourceRecordSets", l.zoneID))]

\* The provider rejected the change batch: the error is returned.
OnChangeError(l) == Failed(l, "could not update record", "failed to update record set")

\* The listing's error dropped: an answer with an error is taken as one
\* without record sets.
AfterList_IgnoreError(l, resp) ==
    LET got == [l EXCEPT !.resp = <<resp>>]
    IN  IF ~resp.err /\ AlreadyRegistered(resp, l.fqdn, l.ip)
        THEN [got EXCEPT !.pc = "done", !.logged = "already registered"]
        ELSE [got EXCEPT !.pc = "change",
                         !.params = <<ChangeParams(l.fqdn, l.ip, l.zoneID)>>,
                         !.calls = Append(@, Call("ChangeResourceRecordSets", l.zoneID))]

\* The listing trusted from the second firing on: what an earlier invocation
\* found is taken to hold still, whatever this answer says.
AfterList_Cached(l, resp) ==
    LET got == [l EXCEPT !.resp = <<resp>>]
    IN  IF resp.err THEN Failed(got, "could not update record", "error listing records")
        ELSE IF fired > 1 \/ AlreadyRegistered(resp, l.fqdn, l.ip)
             THEN [got EXCEPT !.pc = "done", !.logged = "already registered"]
        ELSE [got EXCEPT !.pc = "change",
                         !.params = <<ChangeParams(l.fqdn, l.ip, l.zoneID)>>,
                         !.calls = Append(@, Call("ChangeResourceRecordSets", l.zoneID))]

\* upsertRoute53Record from the answer of ListResourceRecordSets up to its
\* call of ChangeResourceRecordSets, or its return when the address is
\* already registered.
AfterList(l, resp) ==
    LET got == [l EXCEPT !.resp = <<resp>>]
    IN  IF resp.err THEN Failed(got, "could not update record", "error listing records")
        ELSE IF AlreadyRegistered(resp, l.fqdn, l.ip)
             THEN [got EXCEPT !.pc = "done", !.logged = "already registered"]
        ELSE [got EXCEPT !.pc = "change",
                         !.params = <<ChangeParams(l.fqdn, l.ip, l.zoneID)>>,
                         !.calls = Append(@, Call("ChangeResourceRecordSets", l.zoneID))]

\* upsertRoute53Record from the answer of ChangeResourceRecordSets to its
\* return.
AfterChange(l, rejected) ==
    IF rejected THEN OnChangeError(l)
    ELSE [l EXCEPT !.pc = "done", !.logged = "submitted change"]

\* ------------------------------------------------------------- the process

\* The process at its start, its environment holding one of `hosts`.
InitWith(hosts) ==
    /\ env \in [hostname : hosts, ipurl : IPURLs]
    /\ proc = "init"
    /\ fqdn = <<>>
    /\ ipURL = <<>>
    /\ scheduler = "nil"
    /\ fired = 0
    /\ records \in InitialRecords(env.hostname)
    /\ job = [j \in Jobs |-> IdleJob]

Init == InitWith(ConfiguredHostnames)

\* init(): read the two variables, log.Fatalf on the first that is missing,
\* then create the scheduler and the client.
init ==
    /\ proc = "init"
    /\ fqdn' = env.hostname
    /\ IF ConfigMissing(env.hostname)
       THEN /\ proc' = "exited"
            /\ UNCHANGED <<ipURL, scheduler>>
       ELSE /\ ipURL' = env.ipurl
            /\ IF ConfigMissing(env.ipurl)
               THEN /\ proc' = "exited"
                    /\ UNCHANGED scheduler
               ELSE /\ proc' = "main"
                    /\ scheduler' = "created"
    /\ UNCHANGED <<env, fired, records, job>>

\* main(): register getIPAndUpdate every UpdateInterval seconds and start
\* the scheduler, blocking.
main ==
    /\ proc = "main"
    /\ scheduler = "created"
    /\ scheduler' = "started"
    /\ proc' = "blocking"
    /\ UNCHANGED <<env, fqdn, ipURL, fired, records, job>>

Running == proc = "blocking" /\ scheduler = "started"

\* Whether the trigger may fire while job j is idle: the job was registered
\* with Do and nothing else, so the scheduler runs every firing in a
\* goroutine of its own, whatever the earlier invocations are doing.
MayFire(j) == job[j].pc = "idle" /\ \A k \in Jobs : k < j => job[k].pc /= "idle"

\* The trigger fires: getIPAndUpdate starts and getIP calls http.Get.
Tick(j) ==
    /\ Running
    /\ fired < MaxCycles
    /\ MayFire(j)
    /\ fired' = fired + 1
    /\ job' = [job EXCEPT ![j] = [IdleJob EXCEPT !.pc = "http",
                                                  !.calls = <<Call("GET", ipURL)>>]]
    /\ UNCHANGED <<env, proc, fqdn, ipURL, scheduler, records>>

\* A step of invocation j that leaves it in `next`; a panic is not
\* recovered and ends the process.
Step(j, next) ==
    /\ job' = [job EXCEPT ![j] = next]
    /\ proc' = IF next.pc = "panic" THEN "panicked" ELSE proc

HTTPResponse(j) ==
    /\ Running
    /\ job[j].pc = "http"
    /\ \E httpResp \in HTTPResponses : Step(j, AfterHTTP(job[j], httpResp, fqdn))
    /\ UNCHANGED <<env, fqdn, ipURL, scheduler, fired, records>>

ZonesResponse(j) ==
    /\ Running
    /\ job[j].pc = "zones"
    /\ \E resources \in ZoneResponses(job[j].tokens[3] \o <<Dot>>) :
          Step(j, AfterZones(job[j], resources))
    /\ UNCHANGED <<env, fqdn, ipURL, scheduler, fired, records>>

ListResponse(j) ==
    /\ Running
    /\ job[j].pc = "list"
    /\ \E resp \in ListResponses(records, job[j].zoneID, job[j].fqdn) :
          Step(j, AfterList(job[j], resp))
    /\ UNCHANGED <<env, fqdn, ipURL, scheduler, fired, records>>

ChangeResponse(j) ==
    /\ Running
    /\ job[j].pc = "change"
    /\ \E rejected \in BOOLEAN :
          /\ Step(j, AfterChange(job[j], rejected))
          /\ records' = IF rejected THEN records ELSE ApplyChange(records, job[j].params[1])
    /\ UNCHANGED <<env, fqdn, ipURL, scheduler, fired>>

\* The goroutine of a returned invocation ends; the scheduler drops the
\* error it returned.
Return(j) ==
    /\ Running
    /\ job[j].pc = "done"
    /\ job' = [job EXCEPT ![j] = IdleJob]
    /\ UNCHANGED <<env, proc, fqdn, ipURL, scheduler, fired, records>>

Next ==
    \/ init
    \/ main
    \/ \E j \in Jobs : Tick(j)
    \/ \E j \in Jobs : HTTPResponse(j)
    \/ \E j \in Jobs : ZonesResponse(j)
    \/ \E j \in Jobs : ListResponse(j)
    \/ \E j \in Jobs : ChangeResponse(j)
    \/ \E j \in Jobs : Return(j)

Spec == Init /\ [][Next]_vars

\* The process with the steps that are its own taken in the end: init(),
\* main(), the firing of the timer and the return of an invocation. The
\* answers of the remote endpoints carry no such condition: http.Get and
\* the provider's client are called without a timeout, so nothing in the
\* process makes a call that is not answered end.
SpecFair ==
    /\ Init
    /\ [][Next]_vars
    /\ WF_vars(init)
    /\ WF_vars(main)
    /\ WF_vars(\E j \in Jobs : Tick(j))
    /\ WF_vars(\E j \in Jobs : Return(j))

\* The process from its start to the first invocation's split of the
\* hostname, for every hostname of up to MaxHostLen characters.
SplitInit == InitWith(Hostnames)

SplitNext ==
    \/ init
    \/ main
    \/ Tick(1)
    \/ HTTPResponse(1)

SpecSplit == SplitInit /\ [][SplitNext]_vars

\* ------------------------------------------------------------- properties

\* Number of calls of `api` that invocation l has issued.
CountCalls(l, api) == Cardinality({i \in 1..Len(l.calls) : l.calls[i].api = api})

\* Calls to the DNS provider (everything but the GET of the address).
ProviderCalls(l) == Cardinality({i \in 1..Len(l.calls) : l.calls[i].api /= "GET"})

\* The provider holds, in zone zoneID, a record set named host+"." with ip
\* among its values.
ProviderHolds(recs, zoneID, host, ip) ==
    \E r \in recs :
        /\ r.Zone = zoneID
        /\ r.Name = host \o <<Dot>>
        /\ \E i \in 1..Len(r.ResourceRecords) : r.ResourceRecords[i].Value = ip

\* The listing that invocation l got back shows a record set named
\* fqdn+"." with ip among its values.
ListedWithValue(l) ==
    \E i \in 1..Len(l.resp[1].ResourceRecordSets) :
        /\ Len(l.resp[1].ResourceRecordSets) = 1
        /\ l.resp[1].ResourceRecordSets[i].Name = l.fqdn \o <<Dot>>
        /\ \E k \in 1..Len(l.resp[1].ResourceRecordSets[i].ResourceRecords) :
              l.resp[1].ResourceRecordSets[i].ResourceRecords[k].Value = l.ip

\* Invocation l got a listing back without error.
Listed(l) == l.resp /= <<>> /\ ~l.resp[1].err

IsTheUpsert(l) ==
    /\ CountCalls(l, "ChangeResourceRecordSets") = 1
    /\ Len(l.params) = 1
    /\ Len(l.params[1].ChangeBatch.Changes) = 1
    /\ l.params[1].ChangeBatch.Changes[1].Action = "UPSERT"
    /\ l.params[1].ChangeBatch.Changes[1].ResourceRecordSet =
          [Name |-> l.fqdn \o <<Dot>>, Type |-> "A",
           ResourceRecords |-> <<[Value |-> l.ip]>>, TTL |-> 300]

\* C2 as stated (update path): an invocation whose listing shows no record
\* named fqdn+"." with the value ip has, once it returned, issued exactly
\* one upsert of (fqdn+".", A, ip, TTL 300) and returned "updated".
C2_UpdatePath_AsStated ==
    \A j \in Jobs :
        (Listed(job[j]) /\ ~ListedWithValue(job[j]) /\ job[j].pc = "done")
        => /\ IsTheUpsert(job[j])
           /\ job[j].err = <<>>
           /\ job[j].logged = "submitted change"

\* C2 as amended (update path): an invocation whose listing shows no record
\* named fqdn+"." with the value ip issues exactly one upsert of (fqdn+".",
\* A, ip, TTL 300), and returns either "updated" or, when the provider
\* rejects the batch, the update-rejected failure.
C2_UpdatePath ==
    \A j \in Jobs :
        (Listed(job[j]) /\ ~ListedWithValue(job[j]))
        => /\ job[j].pc \in {"change", "done"}
           /\ IsTheUpsert(job[j])
           /\ job[j].pc = "done" =>
                 \/ job[j].err = <<>> /\ job[j].logged = "submitted change"
                 \/ /\ job[j].err = <<"could not update record", "failed to update record set">>
                    /\ job[j].logged = ""

\* An invocation returned "updated" after a listing that showed the record
\* with other values only, and the provider now holds the new value.
C2_Witness ==
    \E j \in Jobs :
        /\ job[j].pc = "done"
        /\ job[j].logged = "submitted change"
        /\ Listed(job[j])
        /\ Len(job[j].resp[1].ResourceRecordSets) = 1
        /\ job[j].resp[1].ResourceRecordSets[1].Name = job[j].fqdn \o <<Dot>>
        /\ ~ListedWithValue(job[j])
        /\ ProviderHolds(records, job[j].zoneID, job[j].fqdn, job[j].ip)

\* Invocation l got an answer to its zone lookup, without error.
Looked(l) == l.resources /= <<>> /\ ~l.resources[1].err

\* C3 (zone mismatch): an invocation whose zone lookup returned a single
\* zone whose name is not parentDomain+"." has failed with the zone-mismatch
\* error and has issued neither a record listing nor an upsert.
C3_ZoneMismatch ==
    \A j \in Jobs :
        ( /\ Looked(job[j])
          /\ Len(job[j].resources[1].HostedZones) = 1
          /\ job[j].resources[1].HostedZones[1].Name /= job[j].tokens[3] \o <<Dot>> )
        => /\ job[j].pc = "done"
           /\ job[j].err = <<"could not update record", "zone mismatch">>
           /\ CountCalls(job[j], "ListResourceRecordSets") = 0
           /\ CountCalls(job[j], "ChangeResourceRecordSets") = 0

\* C4 (malformed hostname): with a hostname that holds no separator, no
\* invocation panics and none calls the provider.
C4_MalformedHostname ==
    Dot \notin Range(env.hostname)
    => /\ proc /= "panicked"
       /\ \A j \in Jobs : job[j].pc /= "panic" /\ ProviderCalls(job[j]) = 0

\* C5 (failures are caught): once the scheduler is started the process
\* keeps running, whatever the invocations return.
C5_FailuresCaught == scheduler = "started" => proc = "blocking"

\* C6 (no overlap): at most one invocation of getIPAndUpdate is in progress.
C6_NoOverlap == Cardinality({j \in Jobs : job[j].pc \notin {"idle", "done"}}) <= 1

\* C7 (zone not found): an invocation whose zone lookup returned no zone or
\* more than one has failed with "could not find domain" and has issued
\* neither a record listing nor an upsert.
C7_ZoneNotFound ==
    \A j \in Jobs :
        (Looked(job[j]) /\ Len(job[j].resources[1].HostedZones) /= 1)
        => /\ job[j].pc = "done"
           /\ job[j].err = <<"could not update record", "could not find domain">>
           /\ CountCalls(job[j], "ListResourceRecordSets") = 0
           /\ CountCalls(job[j], "ChangeResourceRecordSets") = 0
           /\ job[j].calls[Len(job[j].calls)].api = "ListHostedZonesByName"

\* One invocation failed on an empty answer, another on two zones.
C7_Witness ==
    \E j, k \in Jobs :
        /\ job[j].pc = "done" /\ Looked(job[j])
        /\ Len(job[j].resources[1].HostedZones) = 0
        /\ job[k].pc = "done" /\ Looked(job[k])
        /\ Len(job[k].resources[1].HostedZones) = 2

\* C8 (no retry): an invocation issues at most one upsert; when the
\* provider rejected it the invocation has returned with the
\* update-rejected failure and the upsert is the last call it issued.
C8_NoRetry ==
    \A j \in Jobs :
        /\ CountCalls(job[j], "ChangeResourceRecordSets") <= 1
        /\ (job[j].pc \in {"idle", "http", "zones", "list"}
              => CountCalls(job[j], "ChangeResourceRecordSets") = 0)
        /\ (CountCalls(job[j], "ChangeResourceRecordSets") = 1 /\ job[j].pc /= "change")
              => /\ job[j].pc = "done"
                 /\ job[j].calls[Len(job[j].calls)].api = "ChangeResourceRecordSets"
                 /\ \/ job[j].err = <<>> /\ job[j].logged = "submitted change"
                    \/ job[j].err = <<"could not update record", "failed to update record set">>

\* An invocation returned the update-rejected failure after one upsert.
C8_Witness ==
    \E j \in Jobs :
        /\ job[j].pc = "done"
        /\ job[j].err = <<"could not update record", "failed to update record set">>
        /\ CountCalls(job[j], "ChangeResourceRecordSets") = 1

\* C9 (hostname split): an invocation that split a hostname holding a
\* separator got a non-empty label without separator and a non-empty parent
\* domain, with label + "." + parent domain equal to the hostname.
C9_Split ==
    \A j \in Jobs :
        (job[j].fqdn /= <<>> /\ Dot \in Range(job[j].fqdn))
        => /\ Len(job[j].tokens) = 3
           /\ job[j].tokens[2] /= <<>>
           /\ job[j].tokens[3] /= <<>>
           /\ Dot \notin Range(job[j].tokens[2])
           /\ job[j].tokens[2] \o <<Dot>> \o job[j].tokens[3] = job[j].fqdn

\* C10 (missing configuration): with the hostname or the URL empty, the
\* process is before or past init() only by exiting: the scheduler is never
\* created, the trigger never fires and no invocation issues a call.
C10_ConfigMissing ==
    (env.hostname = <<>> \/ env.ipurl = <<>>)
    => /\ proc \in {"init", "exited"}
       /\ scheduler = "nil"
       /\ fired = 0
       /\ \A j \in Jobs : job[j] = IdleJob

\* The process exited in init() on a missing URL, the hostname being set.
C10_Witness ==
    /\ proc = "exited"
    /\ env.hostname /= <<>>
    /\ env.ipurl = <<>>
    /\ fqdn = env.hostname

\* The texts that are addresses, as the IP-echo service may send them.
AddressTexts == {"203.0.113.9", "203.0.113.1", "::ffff:203.0.113.9"}

\* Invocation l read a body that is an address text followed by at most one
\* line break.
ReadAddress(l) ==
    /\ Len(l.body) = 1
    /\ Len(l.body[1]) \in {1, 2}
    /\ l.body[1][1] \in AddressTexts
    /\ Len(l.body[1]) = 2 => l.body[1][2] = NL

\* C11 as stated (address returned as sent): an invocation that read an
\* address text followed by at most one line break goes on with exactly
\* that text, the line break taken off.
C11_Verbatim_AsStated ==
    \A j \in Jobs : ReadAddress(job[j]) => job[j].ip = job[j].body[1][1]

\* C11 as amended: the invocation goes on with the canonical text of the
\* address it read (the line break taken off): the text itself where it is
\* dotted-decimal IPv4, the dotted-decimal form of the embedded address
\* where it is an IPv4-mapped IPv6 text.
C11_Canonical ==
    \A j \in Jobs :
        ReadAddress(job[j])
        => /\ job[j].err = <<>>
           /\ job[j].ip = IF job[j].body[1][1] = "::ffff:203.0.113.9" THEN "203.0.113.9"
                          ELSE job[j].body[1][1]

\* One invocation read a dotted-decimal text followed by a line break and
\* goes on with that text, another read an IPv4-mapped text.
C11_Witness ==
    \E j, k \in Jobs :
        /\ job[j].body = <<<<"203.0.113.1", NL>>>>
        /\ job[j].ip = "203.0.113.1"
        /\ job[k].body = <<<<"::ffff:203.0.113.9", NL>>>>
        /\ job[k].ip = "203.0.113.9"

\* C12 (invalid address): an invocation that read a body that is not an
\* address text followed by at most one line break has returned "not a
\* valid IP address" and has called the provider not once.
C12_InvalidAddress ==
    \A j \in Jobs :
        (Len(job[j].body) = 1 /\ ~ReadAddress(job[j]))
        => /\ job[j].pc = "done"
           /\ job[j].err = <<"unable to determine ip address", "not a valid IP address">>
           /\ job[j].ip = ""
           /\ ProviderCalls(job[j]) = 0
           /\ job[j].calls = <<Call("GET", ipURL)>>

\* One invocation failed on a text that is no address, another on an
\* address followed by two line breaks.
C12_Witness ==
    \E j, k \in Jobs :
        /\ job[j].pc = "done" /\ job[j].body = <<<<"not an ip">>>>
        /\ job[k].pc = "done" /\ job[k].body = <<<<"203.0.113.9", NL, NL>>>>

\* The outbound calls of a cycle, in their order.
CallOrder ==
    <<"GET", "ListHostedZonesByName", "ListResourceRecordSets", "ChangeResourceRecordSets">>

\* C13 (sequential calls): the calls an invocation has issued are a prefix
\* of GET, zone lookup, record listing, upsert, each issued once; the
\* invocation waits for the answer of the last one only; a call was issued
\* only after the one before it succeeded (an address, a single zone
\* without error, a listing without error); and a listing that failed ended
\* the invocation with "error listing records" and without an upsert.
C13_Sequential ==
    \A j \in Jobs :
        LET l == job[j]
            n == Len(l.calls)
        IN  /\ n <= 4
            /\ \A i \in 1..n : l.calls[i].api = CallOrder[i]
            /\ l.pc = "idle" => n = 0
            /\ l.pc = "http" => n = 1
            /\ l.pc = "zones" => n = 2
            /\ l.pc = "list" => n = 3
            /\ l.pc = "change" => n = 4
            /\ n >= 2 => l.ip /= ""
            /\ n >= 3 => Looked(l) /\ Len(l.resources[1].HostedZones) = 1
            /\ n >= 4 => Listed(l)
            /\ (l.resources /= <<>> /\ l.resources[1].err)
                  => l.pc = "done" /\ n = 2 /\ l.err /= <<>>
            /\ (l.resp /= <<>> /\ l.resp[1].err)
                  => /\ l.pc = "done"
                     /\ n = 3
                     /\ l.params = <<>>
                     /\ l.err = <<"could not update record", "error listing records">>

\* An invocation ended on a listing error after three calls.
C13_Witness ==
    \E j \in Jobs :
        /\ job[j].pc = "done"
        /\ job[j].resp /= <<>>
        /\ job[j].resp[1].err
        /\ Len(job[j].calls) = 3

\* What follows the last slash of a composite identifier (all of it when it
\* holds no slash).
AfterLastSlash(id) ==
    LET slashes == {i \in 1..Len(id) : id[i] = "/"}
        last == IF slashes = {} THEN 0 ELSE CHOOSE i \in slashes : \A k \in slashes : k <= i
    IN  SubSeq(id, last + 1, Len(id))

\* C14 (zone scope): the record listing and the upsert of an invocation,
\* and the change batch it built, name the zone identifier that follows the
\* last slash of the Id of the zone its own zone lookup returned.
C14_ZoneScope ==
    \A j \in Jobs :
        LET l == job[j]
        IN  /\ \A i \in 1..Len(l.calls) :
                  l.calls[i].api \in {"ListResourceRecordSets", "ChangeResourceRecordSets"}
                  => /\ Looked(l)
                     /\ l.calls[i].arg = AfterLastSlash(l.resources[1].HostedZones[1].Id)
            /\ l.params /= <<>>
                  => /\ Looked(l)
                     /\ l.params[1].HostedZoneId =
                           AfterLastSlash(l.resources[1].HostedZones[1].Id)

\* Two invocations at once, each with its upsert issued in the zone its own
\* lookup returned: "A" of "/h/A" and "B" of "/h/B".
C14_Witness ==
    \E j, k \in Jobs :
        /\ job[j].params /= <<>>
        /\ job[j].resources[1].HostedZones[1].Id = ZoneIdA
        /\ job[j].params[1].HostedZoneId = <<"A">>
        /\ job[j].calls[3].arg = <<"A">>
        /\ job[k].params /= <<>>
        /\ job[k].resources[1].HostedZones[1].Id = ZoneIdB
        /\ job[k].params[1].HostedZoneId = <<"B">>
        /\ job[k].calls[3].arg = <<"B">>

\* Zone, name and type of a stored record set.
KeyOf(r) == <<r.Zone, r.Name, r.Type>>

\* C15 (frame): every change batch built is a single UPSERT, and whenever
\* the provider's state changes, it is by the accepted upsert of one
\* invocation: the record set (fqdn+".", A) of the zone that invocation
\* located is afterwards there with the single value ip and TTL 300, and
\* every record set of another name or zone is as it was.
C15_Frame ==
    [][ /\ \A j \in Jobs :
              job'[j].params /= <<>>
              => /\ Len(job'[j].params[1].ChangeBatch.Changes) = 1
                 /\ job'[j].params[1].ChangeBatch.Changes[1].Action = "UPSERT"
        /\ records' /= records
              => \E j \in Jobs :
                    LET l == job[j]
                        target == <<l.zoneID, l.fqdn \o <<Dot>>, "A">>
                    IN  /\ l.pc = "change"
                        /\ job'[j].logged = "submitted change"
                        /\ l.zoneID = AfterLastSlash(l.resources[1].HostedZones[1].Id)
                        /\ \A r \in records : KeyOf(r) /= target => r \in records'
                        /\ \A r \in records' : KeyOf(r) /= target => r \in records
                        /\ {r \in records' : KeyOf(r) = target} =
                              {[Zone |-> l.zoneID, Name |-> l.fqdn \o <<Dot>>, Type |-> "A",
                                TTL |-> 300, ResourceRecords |-> <<[Value |-> l.ip]>>]}
      ]_vars

\* An upsert of the record in zone A was accepted, and the unrelated record
\* of zone A and the record of the same name in zone B are still there.
C15_Witness ==
    \E j \in Jobs :
        /\ job[j].pc = "done"
        /\ job[j].logged = "submitted change"
        /\ job[j].zoneID = <<"A">>
        /\ job[j].resp[1].ResourceRecordSets /= <<>>
        /\ RRSet(<<"A">>, job[j].fqdn \o <<Dot>>, <<job[j].ip>>) \in records
        /\ RRSet(<<"A">>, OtherRecordName, <<"203.0.113.9">>) \in records
        /\ RRSet(<<"B">>, job[j].fqdn \o <<Dot>>, <<"203.0.113.1">>) \in records

\* C16 (bounded calls): every invocation that waits for the answer of an
\* outbound call returns in the end (or fails outright), whether or not the
\* remote endpoint answers.
C16_EveryCycleReturns ==
    \A j \in Jobs :
        (job[j].pc \in {"http", "zones", "list", "change"})
            ~> (job[j].pc \in {"idle", "done"} \/ proc = "panicked")

\* C17 (convergence): once the provider holds, in the zone an invocation
\* located, the record fqdn+"." with the address that invocation observed
\* (as it does after a cycle returned "updated" for that address and until
\* the record is changed), no upsert of that invocation is submitted and
\* accepted: a cycle with that address issues no write.
C17_Convergence ==
    [][\A j \in Jobs :
          (job[j].pc = "change" /\ job'[j].pc = "done" /\ job'[j].logged = "submitted change")
          => ~ProviderHolds(records, job[j].zoneID, job[j].fqdn, job[j].ip)]_vars

\* What an invocation has observed so far: the body getIP read, the address
\* it returned, the answer of the zone lookup and the answer of the listing.
Observed(l) == <<l.body, l.ip, l.resources, l.resp>>

\* Whether invocation l has been answered on its change batch: from then on
\* its outcome is the provider's answer to that call.
ChangeAnswered(l) == l.pc = "done" /\ l.params /= <<>>

\* C18 (statelessness): the configuration (fqdn, ipURL) is not modified once
\* init() is over; an invocation that starts has the locals of a first
\* invocation and nothing of an earlier one, whatever number of firings came
\* before; and two invocations at the same point that observed the same
\* address, zone answer and listing have issued the same calls, hold the same
\* tokens, zone identifier and change batch, and have the same outcome, unless
\* both were answered on their change batch (the outcome then being the
\* provider's answer to it).
C18_Stateless ==
    [][/\ proc /= "init" => (fqdn' = fqdn /\ ipURL' = ipURL)
       /\ \A j \in Jobs :
             (job[j].pc = "idle" /\ job'[j].pc /= "idle")
             => job'[j] = [IdleJob EXCEPT !.pc = "http", !.calls = <<Call("GET", ipURL)>>]
       /\ \A j, k \in Jobs :
             (job'[j].pc = job'[k].pc /\ Observed(job'[j]) = Observed(job'[k]))
             => /\ job'[j].calls = job'[k].calls
                /\ job'[j].fqdn = job'[k].fqdn
                /\ job'[j].tokens = job'[k].tokens
                /\ job'[j].zoneID = job'[k].zoneID
                /\ job'[j].params = job'[k].params
                /\ \/ ChangeAnswered(job'[j]) /\ ChangeAnswered(job'[k])
                   \/ job'[j].err = job'[k].err /\ job'[j].logged = job'[k].logged]_vars

\* Two invocations, the second started after the first had gone through
\* init's configuration, both returned after the same observations down to
\* the listing, with the same calls and the same outcome.
C18_Witness ==
    /\ fired = 2
    /\ \E j, k \in Jobs :
          /\ j /= k
          /\ job[j].pc = "done" /\ job[k].pc = "done"
          /\ job[j].resp /= <<>>
          /\ ~job[j].resp[1].err
          /\ Observed(job[j]) = Observed(job[k])
          /\ job[j].calls = job[k].calls
          /\ job[j].logged = job[k].logged
          /\ job[j].logged /= ""

====
